---- MODULE Spec2Model ----
(***************************************************************************)
(* Turn resolution engine of the Maverick card game (src/src/main.rs).     *)
(* The state is the Game struct; the operations are Game::init,            *)
(* Game::update (one call per pointer click), Game::draw (sorts the hand   *)
(* and rebuilds the clickable regions) and the run loop of app().          *)
(* Positions in the monster row and hand indexes are 0-based as in the     *)
(* source; the hand and the deck are sequences whose tail is the end of    *)
(* the Vec (pop takes the last element).                                   *)
(***************************************************************************)
EXTENDS Integers, Sequences, FiniteSets, TLC

\* consts.rs: number of monsters in the dungeon row.
MONSTER_DECK_SIZE == 14

\* consts.rs: the documented number of cards removed before play.
PAYMENTS == 5

\* main.rs, Game::init: `let payments = 1;`
InitPayments == 1

\* main.rs, Game::init: the first hand holds 5 cards, hand_limit starts at 5.
InitHandLimit == 5

\* main.rs, Game::update: hand_limit once the hand was exhausted.
MonstrousHandLimit == 6

\* main.rs, Game::update: exclusive upper end of the pattern Some(0..13).
RangeLeftEnd == 13

\* Bounds of the model.  A session resolves at most MaxPlays card-consuming
\* actions (Move, Range, Melee, Swap), all of them before its hand was
\* refilled MaxTurns times, and a session in which a card was played is
\* followed for at most MaxTurns refills.  Once no further card can be
\* played under these bounds, the clicks that select a card or a
\* card-consuming action are left out, except in the EndGame state.  A session in which no card is played
\* is followed to the end of its deck.
MaxPlays == 3
MaxTurns == 1

\* Option::None of current_card and of current_monster.
None == -1

(***************************************************************************)
(* Monster catalog                                                         *)
(***************************************************************************)
\* MONSTER_STATS: (name, strength, ability, to_slay), entry i at i + 1.
MONSTER_STATS ==
  << <<"Banshee",    1, "None",    <<"Melee", "Range", "None">> >>,
     <<"Beholder",   1, "None",    <<"Range", "Range", "Range">> >>,
     <<"Bug",        1, "None",    <<"Range", "None", "None">> >>,
     <<"Demon",      5, "None",    <<"Melee", "Range", "None">> >>,
     <<"Dragon",     5, "Reign",   <<"Move", "Melee", "Range">> >>,
     <<"Elemental",  2, "None",    <<"Melee", "Range", "None">> >>,
     <<"Ghost",      0, "Noxious", <<"Move", "None", "None">> >>,
     <<"Golem",      3, "Reign",   <<"Melee", "None", "None">> >>,
     <<"Hellhound",  2, "None",    <<"Range", "None", "None">> >>,
     <<"Howler",     4, "Rally",   <<"Melee", "None", "None">> >>,
     <<"Imp",        0, "None",    <<"Move", "Move", "None">> >>,
     <<"Lich",       4, "Reign",   <<"Range", "None", "None">> >>,
     <<"Scorpion",   1, "Noxious", <<"Melee", "Range", "None">> >>,
     <<"Skeleton",   2, "None",    <<"Move", "Melee", "None">> >>,
     <<"Spider",     1, "Noxious", <<"Range", "Range", "None">> >>,
     <<"Troglodyte", 1, "Rally",   <<"Move", "Melee", "None">> >>,
     <<"Troll",      3, "None",    <<"Move", "Range", "None">> >>,
     <<"Werewolf",   2, "None",    <<"Melee", "Melee", "None">> >> >>

\* The positions of the monster row.
Slots == 0 .. (MONSTER_DECK_SIZE - 1)

(***************************************************************************)
(* Vec helpers                                                             *)
(***************************************************************************)
\* Vec::remove(index) with a 0-based index < len.
RemoveAt(s, i) == SubSeq(s, 1, i) \o SubSeq(s, i + 2, Len(s))

\* Vec::contains.
Contains(s, x) == \E i \in 1 .. Len(s) : s[i] = x

\* Vec::remove_item: removes the first element equal to x, if there is one.
remove_item(s, x) ==
  IF Contains(s, x)
  THEN RemoveAt(s, (CHOOSE i \in 1 .. Len(s) : s[i] = x /\ \A j \in 1 .. (i - 1) : s[j] # x) - 1)
  ELSE s

\* Vec::swap with 0-based indexes.
swap(s, x, y) == [s EXCEPT ![x + 1] = s[y + 1], ![y + 1] = s[x + 1]]

\* usize::saturating_sub.
saturating_sub(a, b) == IF a >= b THEN a - b ELSE 0

\* usize::checked_sub: None on underflow.
checked_sub(a, b) == IF a >= b THEN a - b ELSE None

RECURSIVE InsertSorted(_, _)
InsertSorted(s, x) ==
  IF s = <<>> THEN <<x>>
  ELSE IF x <= Head(s) THEN <<x>> \o s
  ELSE <<Head(s)>> \o InsertSorted(Tail(s), x)

\* Vec::sort of the hand.
RECURSIVE sort(_)
sort(s) == IF s = <<>> THEN <<>> ELSE InsertSorted(sort(Tail(s)), Head(s))

\* F applied to the value of e, with e evaluated once.
Let(e, F(_)) == CHOOSE y \in { F(x) : x \in {e} } : TRUE

\* Number of elements of s equal to x.
RECURSIVE Count(_, _)
Count(s, x) ==
  IF s = <<>> THEN 0 ELSE (IF Head(s) = x THEN 1 ELSE 0) + Count(Tail(s), x)

(***************************************************************************)
(* Actions and clickable regions                                           *)
(***************************************************************************)
\* Option<Action>::None.
NoAction == [kind |-> "None", entity |-> "None", direction |-> "None"]

Range(entity, direction) == [kind |-> "Range", entity |-> entity, direction |-> direction]
Melee(entity) == [kind |-> "Melee", entity |-> entity, direction |-> "None"]
Move(entity, direction) == [kind |-> "Move", entity |-> entity, direction |-> direction]
Swap == [kind |-> "Swap", entity |-> "None", direction |-> "None"]
EndTurn == [kind |-> "EndTurn", entity |-> "None", direction |-> "None"]

\* ClickableType::Action, ::Card and ::State, and a click inside no region.
ClickAction(action) == [type |-> "Action", action |-> action, card |-> None, state |-> "None"]
ClickCard(card) == [type |-> "Card", action |-> NoAction, card |-> card, state |-> "None"]
ClickState(st) == [type |-> "State", action |-> NoAction, card |-> None, state |-> st]
NoClick == [type |-> "None", action |-> NoAction, card |-> None, state |-> "None"]

(***************************************************************************)
(* Game::init and Monsters::init                                           *)
(***************************************************************************)
\* A sampling loop that pushes every outcome, drawn before or not.
RECURSIVE SampleIndexes_NoReject(_, _)
SampleIndexes_NoReject(monster_indexes, draws) ==
  IF Len(monster_indexes) = MONSTER_DECK_SIZE \/ draws = <<>>
  THEN monster_indexes
  ELSE SampleIndexes_NoReject(Append(monster_indexes, Head(draws)), Tail(draws))

\* Monsters::init, the sampling loop: the outcomes of rand::random() % 18 are
\* read in order and one is pushed when the Vec does not contain it yet.
RECURSIVE SampleIndexes(_, _)
SampleIndexes(monster_indexes, draws) ==
  IF Len(monster_indexes) = MONSTER_DECK_SIZE \/ draws = <<>>
  THEN monster_indexes
  ELSE IF ~Contains(monster_indexes, Head(draws))
       THEN SampleIndexes(Append(monster_indexes, Head(draws)), Tail(draws))
       ELSE SampleIndexes(monster_indexes, Tail(draws))

\* Monsters::init, the collect() of the Some entries of to_slay.
CollectSlay(to_slay) == SelectSeq(to_slay, LAMBDA x : x # "None")

\* Monsters::init, the populate loop: the Monsters struct (without images).
MonstersInit(draws) ==
  LET monster_indexes == SampleIndexes(<<>>, draws)
      stat(i) == MONSTER_STATS[monster_indexes[i + 1] + 1]
  IN [names                |-> [i \in Slots |-> stat(i)[1]],
      strengths            |-> [i \in Slots |-> stat(i)[2]],
      strength_adjustments |-> [i \in Slots |-> 0],
      abilities            |-> [i \in Slots |-> stat(i)[3]],
      to_slays             |-> [i \in Slots |-> CollectSlay(stat(i)[4])],
      current_hits         |-> [i \in Slots |-> <<>>],
      alive                |-> [i \in Slots |-> TRUE]]

\* Game::init, the vec! literal: 8 copies of each of 1..5.
FreshDeck == [i \in 1 .. 40 |-> ((i - 1) \div 8) + 1]

\* Game::init, the shuffle loop: each iteration draws x and y and swaps them
\* unless x == y.  swaps lists the (x, y) of the iterations.
RECURSIVE Shuffle(_, _)
Shuffle(deck, swaps) ==
  IF swaps = <<>> THEN deck
  ELSE LET x == Head(swaps)[1]
           y == Head(swaps)[2]
       IN Shuffle(IF x = y THEN deck ELSE swap(deck, x, y), Tail(swaps))

\* Vec::pop n times: the deck that is left.
PopN(deck, n) == SubSeq(deck, 1, Len(deck) - n)

\* The n cards popped from the tail, in the order they are popped.
Popped(deck, n) == [i \in 1 .. n |-> deck[Len(deck) + 1 - i]]

\* Game::init: the Game struct after construction.
GameInit(draws, swaps, kind) ==
  LET m        == MonstersInit(draws)
      shuffled == Shuffle(FreshDeck, swaps)
      paid     == PopN(shuffled, InitPayments)
  IN [state                |-> "Playing",
      names                |-> m.names,
      strengths            |-> m.strengths,
      strength_adjustments |-> m.strength_adjustments,
      abilities            |-> m.abilities,
      to_slays             |-> m.to_slays,
      current_hits         |-> m.current_hits,
      alive                |-> m.alive,
      player_index         |-> 0,
      player_kind          |-> "Regular",
      companion_index      |-> 0,
      companion_kind       |-> kind,
      clickables           |-> {},
      deck                 |-> PopN(paid, 5),
      hand                 |-> Popped(paid, 5),
      hand_limit           |-> InitHandLimit,
      current_action       |-> NoAction,
      current_card         |-> None,
      discarded            |-> FALSE,
      payments             |-> InitPayments,
      trophies             |-> 0]

(***************************************************************************)
(* Game::update                                                            *)
(***************************************************************************)
\* update, the loop over the clickables: what the region hit by the click
\* does.  A Reset region sets the state and makes update return at once.
Dispatch(g, click) ==
  CASE click.type = "Action" -> [g EXCEPT !.current_action = click.action]
    [] click.type = "Card"   -> [g EXCEPT !.current_card = click.card]
    [] click.type = "State" /\ click.state = "Reset" -> [g EXCEPT !.state = "Reset"]
    [] OTHER -> g

\* Effective strength as every arm computes it: strengths + strength_adjustments.
monster_strength(g, index) == g.strengths[index] + g.strength_adjustments[index]

\* The index of the entity an action is performed with.
EntityIndex(g, entity) ==
  IF entity = "Character" THEN g.player_index ELSE g.companion_index

\* A Move arm that stops one slot short of the right end of the row.
MoveIndex_OneShort(index, direction, num) ==
  IF direction = "Left"
  THEN saturating_sub(index, num)
  ELSE IF index + num >= MONSTER_DECK_SIZE
       THEN MONSTER_DECK_SIZE - 2
       ELSE index + num

\* Move arm: the new index of the moved entity.
MoveIndex(index, direction, num) ==
  IF direction = "Left"
  THEN saturating_sub(index, num)
  ELSE IF index + num >= MONSTER_DECK_SIZE
       THEN MONSTER_DECK_SIZE - 1
       ELSE index + num

\* Range arms that clamp a Left attack to the first slot of the row.
RangeTarget_Clamped(index, direction, num) ==
  IF direction = "Left"
  THEN saturating_sub(index, num)
  ELSE IF index + num < MONSTER_DECK_SIZE THEN index + num ELSE None

\* Range arms: the target index, or None when the attack is out of bounds.
RangeTarget(index, direction, num) ==
  IF direction = "Left"
  THEN IF checked_sub(index, num) # None /\ checked_sub(index, num) < RangeLeftEnd
       THEN index - num
       ELSE None
  ELSE IF index + num < MONSTER_DECK_SIZE THEN index + num ELSE None

\* A Melee arm that hits only with a card above the strength.
MeleeHits_Strict(num, strength) == num > strength

\* Melee arm: `if num >= monster_strength`.
MeleeHits(num, strength) == num >= strength

\* Arms that never flag a trophy.
IsTrophyHit_Never(num, strength) == FALSE

\* Every arm: the card grants a trophy when it equals the monster strength.
IsTrophyHit(num, strength) == num = strength

\* Move arm: the Noxious test on the monster moved onto.
NoxiousTriggers(g, index) == g.abilities[index] = "Noxious" /\ g.alive[index]

\* The result of the match on (current_action, current_card): the game, the
\* locals current_monster, reset and add_trophy, whether the arm panicked
\* (a failed assert or a remainder by zero; the game is then as the panic
\* left it), and the card value that was taken from the hand (0: none).
Arm(g, current_monster, reset, add_trophy, panic, num) ==
  [g |-> g, current_monster |-> current_monster, reset |-> reset,
   add_trophy |-> add_trophy, panic |-> panic, num |-> num]

\* Every card arm ends by clearing both selections.
ClearSelection(g) == [g EXCEPT !.current_card = None, !.current_action = NoAction]

\* (Some(Action::Move(entity, direction)), Some(hand_index)); r is the
\* outcome of rand::random::<usize>() of the Noxious discard.
MoveArm(g, r) ==
  LET entity     == g.current_action.entity
      direction  == g.current_action.direction
      hand_index == g.current_card
  IN IF ~(hand_index < Len(g.hand))
     THEN Arm(g, None, FALSE, FALSE, TRUE, 0)
     ELSE
       LET num   == g.hand[hand_index + 1]
           index == MoveIndex(EntityIndex(g, entity), direction, num)
           g1    == [g EXCEPT !.hand = RemoveAt(g.hand, hand_index),
                              !.player_index = IF entity = "Character" THEN index ELSE @,
                              !.companion_index = IF entity = "Companion" THEN index ELSE @,
                              !.current_hits[index] = Append(@, "Move")]
           add_trophy == IsTrophyHit(num, monster_strength(g1, index))
       IN IF NoxiousTriggers(g1, index)
          THEN IF Len(g1.hand) = 0
               THEN Arm(g1, None, FALSE, add_trophy, TRUE, num)
               ELSE Arm(ClearSelection(
                          [g1 EXCEPT !.hand = RemoveAt(g1.hand, r % Len(g1.hand)),
                                     !.discarded = TRUE]),
                        index, FALSE, add_trophy, FALSE, num)
          ELSE Arm(ClearSelection(g1), index, FALSE, add_trophy, FALSE, num)

\* A Swap arm that turns a Melee companion into a Range companion and leaves
\* a Range companion as it is.
SwapArm_OneWay(g) ==
  LET hand_index == g.current_card
  IN IF ~(hand_index < Len(g.hand))
     THEN Arm(g, None, FALSE, FALSE, TRUE, 0)
     ELSE Arm(ClearSelection(
                [g EXCEPT !.hand = RemoveAt(g.hand, hand_index),
                          !.companion_kind = "Range"]),
              None, FALSE, FALSE, FALSE, g.hand[hand_index + 1])

\* (Some(Action::Swap), Some(hand_index)).
SwapArm(g) ==
  LET hand_index == g.current_card
  IN IF ~(hand_index < Len(g.hand))
     THEN Arm(g, None, FALSE, FALSE, TRUE, 0)
     ELSE Arm(ClearSelection(
                [g EXCEPT !.hand = RemoveAt(g.hand, hand_index),
                          !.companion_kind = IF @ = "Melee" THEN "Range" ELSE "Melee"]),
              None, FALSE, FALSE, FALSE, g.hand[hand_index + 1])

\* (Some(Action::Range(entity, Left | Right)), Some(hand_index)).
RangeArm(g) ==
  LET entity     == g.current_action.entity
      direction  == g.current_action.direction
      hand_index == g.current_card
  IN IF ~(hand_index < Len(g.hand))
     THEN Arm(g, None, FALSE, FALSE, TRUE, 0)
     ELSE
       LET num    == g.hand[hand_index + 1]
           g1     == [g EXCEPT !.hand = RemoveAt(g.hand, hand_index)]
           target == RangeTarget(EntityIndex(g1, entity), direction, num)
       IN IF target # None
          THEN Arm(ClearSelection([g1 EXCEPT !.current_hits[target] = Append(@, "Range")]),
                   target, FALSE, IsTrophyHit(num, monster_strength(g1, target)), FALSE, num)
          ELSE Arm(ClearSelection(g1), None, FALSE, FALSE, FALSE, num)

\* (Some(Action::Melee(entity)), Some(hand_index)).
MeleeArm(g) ==
  LET entity     == g.current_action.entity
      hand_index == g.current_card
  IN IF ~(hand_index < Len(g.hand))
     THEN Arm(g, None, FALSE, FALSE, TRUE, 0)
     ELSE
       LET num           == g.hand[hand_index + 1]
           g1            == [g EXCEPT !.hand = RemoveAt(g.hand, hand_index)]
           monster_index == EntityIndex(g1, entity)
           strength      == monster_strength(g1, monster_index)
       IN IF MeleeHits(num, strength)
          THEN Arm(ClearSelection([g1 EXCEPT !.current_hits[monster_index] = Append(@, "Melee")]),
                   monster_index, FALSE, IsTrophyHit(num, strength), FALSE, num)
          ELSE Arm(ClearSelection(g1), None, FALSE, FALSE, FALSE, num)

\* An EndTurn arm that waits for a card selection.
EndTurnArm_NeedsCard(g) ==
  IF g.current_card # None
  THEN Arm(ClearSelection(g), None, TRUE, FALSE, FALSE, 0)
  ELSE Arm(g, None, FALSE, FALSE, FALSE, 0)

\* An EndTurn arm that leaves the two selections as they are.
EndTurnArm_KeepsSelection(g) == Arm(g, None, TRUE, FALSE, FALSE, 0)

\* (Some(Action::EndTurn), _).
EndTurnArm(g) == Arm(ClearSelection(g), None, TRUE, FALSE, FALSE, 0)

\* Whether the match takes one of the arms that remove a card from the hand.
ResolvesCard(g) ==
  g.current_card # None /\ g.current_action.kind \in {"Move", "Swap", "Range", "Melee"}

\* The match on (self.current_action, self.current_card).
Resolve(g, r) ==
  CASE g.current_action.kind = "EndTurn" -> EndTurnArm(g)
    [] ResolvesCard(g) /\ g.current_action.kind = "Move"  -> MoveArm(g, r)
    [] ResolvesCard(g) /\ g.current_action.kind = "Swap"  -> SwapArm(g)
    [] ResolvesCard(g) /\ g.current_action.kind = "Range" -> RangeArm(g)
    [] ResolvesCard(g) /\ g.current_action.kind = "Melee" -> MeleeArm(g)
    [] OTHER -> Arm(g, None, FALSE, FALSE, FALSE, 0)

\* Kill check, the loop: every current hit is removed from the clone of to_slays.
RECURSIVE RemoveHits(_, _)
RemoveHits(to_slays, curr_hits) ==
  IF curr_hits = <<>> THEN to_slays
  ELSE RemoveHits(remove_item(to_slays, Head(curr_hits)), Tail(curr_hits))

\* A kill check that takes the requirements as a set: one hit of a tag
\* answers every requirement of that tag.
HasEnoughHits_AsSet(to_slays, curr_hits) ==
  \A k \in 1 .. Len(to_slays) : Contains(curr_hits, to_slays[k])

\* A kill check that is satisfied by any hit at all.
HasEnoughHits_Any(to_slays, curr_hits) == Len(curr_hits) > 0

\* Kill check: `to_slays.len() == 0` after the removals.
HasEnoughHits(to_slays, curr_hits) == Len(RemoveHits(to_slays, curr_hits)) = 0

\* A kill check that leaves the markers on the monster it kills.
KillCheck_KeepsHits(g, current_monster, add_trophy) ==
  IF current_monster # None /\ g.alive[current_monster]
     /\ HasEnoughHits(g.to_slays[current_monster], g.current_hits[current_monster])
  THEN [g EXCEPT !.alive[current_monster] = FALSE,
                 !.trophies = IF add_trophy THEN @ + 1 ELSE @]
  ELSE g

\* A kill check that counts a trophy for every kill.
KillCheck_AlwaysTrophy(g, current_monster, add_trophy) ==
  IF current_monster # None /\ g.alive[current_monster]
     /\ HasEnoughHits(g.to_slays[current_monster], g.current_hits[current_monster])
  THEN [g EXCEPT !.alive[current_monster] = FALSE,
                 !.current_hits[current_monster] = <<>>,
                 !.trophies = @ + 1]
  ELSE g

\* A kill check that counts a trophy for every exact hit, kill or not.
KillCheck_TrophyPerHit(g, current_monster, add_trophy) ==
  IF current_monster # None /\ g.alive[current_monster]
  THEN IF HasEnoughHits(g.to_slays[current_monster], g.current_hits[current_monster])
       THEN [g EXCEPT !.alive[current_monster] = FALSE,
                      !.current_hits[current_monster] = <<>>,
                      !.trophies = IF add_trophy THEN @ + 1 ELSE @]
       ELSE [g EXCEPT !.trophies = IF add_trophy THEN @ + 1 ELSE @]
  ELSE g

\* A kill check that declares a monster dead only on an exact hit.
KillCheck_OnlyExact(g, current_monster, add_trophy) ==
  IF current_monster # None /\ g.alive[current_monster] /\ add_trophy
     /\ HasEnoughHits(g.to_slays[current_monster], g.current_hits[current_monster])
  THEN [g EXCEPT !.alive[current_monster] = FALSE,
                 !.current_hits[current_monster] = <<>>,
                 !.trophies = @ + 1]
  ELSE g

\* Kill check on current_monster.
KillCheck(g, current_monster, add_trophy) ==
  IF current_monster # None /\ g.alive[current_monster]
     /\ HasEnoughHits(g.to_slays[current_monster], g.current_hits[current_monster])
  THEN [g EXCEPT !.alive[current_monster] = FALSE,
                 !.current_hits[current_monster] = <<>>,
                 !.trophies = IF add_trophy THEN @ + 1 ELSE @]
  ELSE g

\* A Rally test that lets living Reign monsters rally their neighbours too.
Rallies_OrReign(g, index) ==
  index \in Slots /\ g.abilities[index] \in {"Rally", "Reign"} /\ g.alive[index]

\* A Rally test that does not look at the alive flag.
Rallies_AliveOrNot(g, index) == index \in Slots /\ g.abilities[index] = "Rally"

\* Whether the monster at index is a living Rally monster.
Rallies(g, index) == index \in Slots /\ g.abilities[index] = "Rally" /\ g.alive[index]

\* A Rally loop that adds to the left neighbour only.
RECURSIVE RallyLoop_LeftOnly(_, _, _)
RallyLoop_LeftOnly(g, adjustments, index) ==
  IF index >= MONSTER_DECK_SIZE THEN adjustments
  ELSE IF Rallies(g, index) /\ index > 0
       THEN RallyLoop_LeftOnly(g, [adjustments EXCEPT ![index - 1] = @ + 1], index + 1)
       ELSE RallyLoop_LeftOnly(g, adjustments, index + 1)

\* Second adjustment loop from `index` on: every living Rally monster adds 1
\* to the monster on its left (index > 0) and on its right (index < N - 1).
RECURSIVE RallyLoop(_, _, _)
RallyLoop(g, adjustments, index) ==
  IF index >= MONSTER_DECK_SIZE THEN adjustments
  ELSE IF Rallies(g, index)
       THEN LET left  == IF index > 0
                         THEN [adjustments EXCEPT ![index - 1] = @ + 1]
                         ELSE adjustments
                both  == IF index < MONSTER_DECK_SIZE - 1
                         THEN [left EXCEPT ![index + 1] = @ + 1]
                         ELSE left
            IN RallyLoop(g, both, index + 1)
       ELSE RallyLoop(g, adjustments, index + 1)

\* A recompute without the reset loop: the Rally loop adds to what is there.
RecomputeAdjustments_NoReset(g) ==
  [g EXCEPT !.strength_adjustments = RallyLoop(g, g.strength_adjustments, 0)]

\* Strength adjustments: all reset to 0, then the Rally loop.
RecomputeAdjustments(g) ==
  [g EXCEPT !.strength_adjustments = RallyLoop(g, [i \in Slots |-> 0], 0)]

\* An exhaustion test that does not look at the discarded flag.
HandExhausted_IgnoresDiscard(g) == Len(g.hand) = 0

\* `if self.hand.len() == 0 && !self.discarded`.
HandExhausted(g) == Len(g.hand) = 0 /\ ~g.discarded

\* The player turns Monstrous when the hand is exhausted.
Exhaust(g) ==
  IF HandExhausted(g)
  THEN [g EXCEPT !.hand_limit = MonstrousHandLimit, !.player_kind = "Monstrous"]
  ELSE g

\* A refill loop that pops one card more than the hand limit.
RefillCount_OneMore(deck, hand_limit) ==
  IF Len(deck) < hand_limit + 1 THEN Len(deck) ELSE hand_limit + 1

\* Number of cards the refill loop pops: one per iteration while the deck
\* has cards.
RefillCount(deck, hand_limit) == IF Len(deck) < hand_limit THEN Len(deck) ELSE hand_limit

\* A refill that leaves the hit markers on the monsters.
Refill_KeepsHits(g) ==
  LET n == RefillCount(g.deck, g.hand_limit)
  IN [g EXCEPT !.hand = Popped(g.deck, n),
               !.deck = PopN(g.deck, n)]

\* A refill that copies the cards and leaves them in the deck.
Refill_NoPop(g) ==
  LET n == RefillCount(g.deck, g.hand_limit)
  IN [g EXCEPT !.hand = Popped(g.deck, n),
               !.current_hits = [i \in Slots |-> <<>>]]

\* `if reset`: the hand is cleared and refilled, all current hits are cleared.
Refill(g) ==
  LET n == RefillCount(g.deck, g.hand_limit)
  IN [g EXCEPT !.hand = Popped(g.deck, n),
               !.deck = PopN(g.deck, n),
               !.current_hits = [i \in Slots |-> <<>>]]

\* An end-game test that looks at the deck only.
IsEndGame_DeckOnly(g) == Len(g.deck) = 0

\* End game is triggered when no cards in hand and no cards left in the deck.
IsEndGame(g) == Len(g.hand) = 0 /\ Len(g.deck) = 0

\* An end-game check that fires on an empty hand, whatever the deck holds.
Finish_HandOnly(g) ==
  [g EXCEPT !.state = IF Len(g.hand) = 0 THEN "EndGame" ELSE @,
            !.discarded = FALSE]

\* The end-game check and the clearing of the discarded flag.
Finish(g) ==
  [g EXCEPT !.state = IF IsEndGame(g) THEN "EndGame" ELSE @,
            !.discarded = FALSE]

\* The local `reset` at `if reset`, for the game g1 after the kill check and
\* the adjustments: set by the EndTurn arm or by the exhausted hand.
ResetPending(a, g1) == a.reset \/ HandExhausted(g1)

\* update after the match, from the game g1 after the kill check and the
\* adjustments: exhaustion, refill, end game.
Lifecycle(a, g1) ==
  Finish(IF ResetPending(a, g1) THEN Refill(Exhaust(g1)) ELSE Exhaust(g1))

\* update after the match arm a: kill check, adjustments, then the lifecycle.
\* The result holds the game after the call and what the call did: whether
\* it returned at the Reset region, whether it panicked, whether it refilled
\* the hand, the action the match resolved and the locals of the match.
AfterMatch(a, action) ==
  Let(RecomputeAdjustments(KillCheck(a.g, a.current_monster, a.add_trophy)),
      LAMBDA g1 :
        [g |-> Lifecycle(a, g1), returned |-> FALSE, panic |-> FALSE,
         refilled |-> ResetPending(a, g1), arm |-> a, action |-> action])

\* update from the match on, for the game g0 the dispatch loop left.
Match(g0, r) ==
  Let(Resolve(g0, r),
      LAMBDA a :
        IF a.panic
        THEN [g |-> a.g, returned |-> FALSE, panic |-> TRUE, refilled |-> FALSE,
              arm |-> a, action |-> g0.current_action]
        ELSE AfterMatch(a, IF ResolvesCard(g0) \/ g0.current_action.kind = "EndTurn"
                           THEN g0.current_action ELSE NoAction))

\* An update that goes on to the match after a Reset click.
update_NoReturn(g, click, r) ==
  Let(Dispatch(g, click),
      LAMBDA g0 : [Match(g0, r) EXCEPT !.returned = click.type = "State"])

\* Game::update for one click; r is the rand outcome a Noxious discard uses.
update(g, click, r) ==
  Let(Dispatch(g, click),
      LAMBDA g0 :
        IF click.type = "State" /\ click.state = "Reset"
        THEN [g |-> g0, returned |-> TRUE, panic |-> FALSE, refilled |-> FALSE,
              arm |-> Arm(g0, None, FALSE, FALSE, FALSE, 0), action |-> NoAction]
        ELSE Match(g0, r))

(***************************************************************************)
(* Game::draw                                                              *)
(***************************************************************************)
\* The clickable regions draw() pushes for a game whose hand is sorted.
Clickables(g) ==
  IF g.state = "EndGame"
  THEN {ClickState("Reset")}
  ELSE (IF g.player_index > 0
        THEN {ClickAction(Range("Character", "Left")), ClickAction(Move("Character", "Left"))}
        ELSE {})
       \cup (IF g.player_index < MONSTER_DECK_SIZE
             THEN {ClickAction(Range("Character", "Right")), ClickAction(Move("Character", "Right"))}
             ELSE {})
       \cup {ClickAction(Melee("Character"))}
       \cup (IF g.companion_index > 0
             THEN (IF g.companion_kind = "Range"
                   THEN {ClickAction(Range("Companion", "Left"))} ELSE {})
                  \cup {ClickAction(Move("Companion", "Left"))}
             ELSE {})
       \cup (IF g.companion_index < MONSTER_DECK_SIZE
             THEN (IF g.companion_kind = "Range"
                   THEN {ClickAction(Range("Companion", "Right"))} ELSE {})
                  \cup {ClickAction(Move("Companion", "Right"))}
             ELSE {})
       \cup (IF g.companion_kind = "Melee" THEN {ClickAction(Melee("Companion"))} ELSE {})
       \cup {ClickAction(Swap)}
       \cup {ClickCard(i) : i \in 0 .. (Len(g.hand) - 1)}
       \cup {ClickAction(EndTurn)}

\* Game::draw: in the EndGame screen only the Reset region is clickable;
\* otherwise the hand is sorted and the regions of the board are rebuilt.
draw(g) ==
  IF g.state = "EndGame"
  THEN [g EXCEPT !.clickables = Clickables(g)]
  ELSE LET sorted == [g EXCEPT !.hand = sort(g.hand)]
       IN [sorted EXCEPT !.clickables = Clickables(sorted)]

(***************************************************************************)
(* State                                                                   *)
(***************************************************************************)
VARIABLES
  state, names, strengths, strength_adjustments, abilities, to_slays,
  current_hits, alive, player_index, player_kind, companion_index,
  companion_kind, clickables, deck, hand, hand_limit, current_action,
  current_card, discarded, payments, trophies,
  pc,       \* position of app(): "start" before the initial update, then "loop"
  aborted,  \* a panic ended the process
  plays,    \* card-consuming actions resolved in this session
  turns,    \* refills of the hand in this session, counted up to MaxTurns
  last      \* trace of the last step: the game before it and the locals of update

\* The fields of the Game struct.
game_vars ==
  << state, names, strengths, strength_adjustments, abilities, to_slays,
     current_hits, alive, player_index, player_kind, companion_index,
     companion_kind, clickables, deck, hand, hand_limit, current_action,
     current_card, discarded, payments, trophies >>

vars == << game_vars, pc, aborted, plays, turns, last >>

\* The Game struct as a record.
Self ==
  [state                |-> state,
   names                |-> names,
   strengths            |-> strengths,
   strength_adjustments |-> strength_adjustments,
   abilities            |-> abilities,
   to_slays             |-> to_slays,
   current_hits         |-> current_hits,
   alive                |-> alive,
   player_index         |-> player_index,
   player_kind          |-> player_kind,
   companion_index      |-> companion_index,
   companion_kind       |-> companion_kind,
   clickables           |-> clickables,
   deck                 |-> deck,
   hand                 |-> hand,
   hand_limit           |-> hand_limit,
   current_action       |-> current_action,
   current_card         |-> current_card,
   discarded            |-> discarded,
   payments             |-> payments,
   trophies             |-> trophies]

\* The Game struct becomes g.
Becomes(g) ==
  /\ state' = g.state
  /\ names' = g.names
  /\ strengths' = g.strengths
  /\ strength_adjustments' = g.strength_adjustments
  /\ abilities' = g.abilities
  /\ to_slays' = g.to_slays
  /\ current_hits' = g.current_hits
  /\ alive' = g.alive
  /\ player_index' = g.player_index
  /\ player_kind' = g.player_kind
  /\ companion_index' = g.companion_index
  /\ companion_kind' = g.companion_kind
  /\ clickables' = g.clickables
  /\ deck' = g.deck
  /\ hand' = g.hand
  /\ hand_limit' = g.hand_limit
  /\ current_action' = g.current_action
  /\ current_card' = g.current_card
  /\ discarded' = g.discarded
  /\ payments' = g.payments
  /\ trophies' = g.trophies

(***************************************************************************)
(* Outcomes of the random draws of init                                    *)
(***************************************************************************)
\* Outcomes of rand::random() % MONSTER_STATS.len() in Monsters::init,
\* repeats included.  The row they give: Howler, Ghost, Bug, Golem, Scorpion,
\* Spider, Troglodyte, Lich, Hellhound, Skeleton, Imp, Demon, Dragon, Beholder.
RosterDrawsA == << 9, 6, 9, 2, 7, 12, 6, 14, 15, 11, 8, 2, 13, 10, 3, 4, 1 >>

RosterDraws == { RosterDrawsA }

\* Outcomes (x, y) of the shuffle iterations that swap; every other
\* iteration of the 1000 draws x == y and is skipped.
ShuffleDrawsA ==
  << <<38, 0>>, <<37, 24>>, <<7, 7>>, <<36, 1>>, <<35, 25>>, <<34, 26>> >>

ShuffleDraws == { ShuffleDrawsA }

CompanionKinds == { "Melee", "Range" }

(***************************************************************************)
(* The run loop of app()                                                   *)
(***************************************************************************)
\* The index an action addresses in game g with a card of value num: the
\* entity's own index for Melee, its index moved by num for Move (clamped to
\* the row) and for Range (not clamped: it may lie outside the row).
Addressed(g, action, num) ==
  LET index == IF action.entity = "Character" THEN g.player_index ELSE g.companion_index
      moved == IF action.direction = "Left" THEN index - num ELSE index + num
  IN CASE action.kind = "Melee" -> index
       [] action.kind = "Range" -> moved
       [] action.kind = "Move"  ->
            IF moved < 0 THEN 0
            ELSE IF moved > MONSTER_DECK_SIZE - 1 THEN MONSTER_DECK_SIZE - 1 ELSE moved
       [] OTHER -> None

\* Trace of a step, kept for the properties: the operation that ran and, for
\* an update, its click, the card selection the match found, the action the
\* match resolved and the hand index and card value it used, the index the action addressed with the strength
\* and alive flag found there before the call, the hand and deck sizes and
\* the trophies before the call, the hand and the hit markers right after
\* the match, and the locals current_monster, add_trophy and reset of the
\* call.
Trace(op, before, click, u) ==
  LET hand_index == IF u.action = NoAction \/ u.action.kind = "EndTurn"
                    THEN None
                    ELSE IF click.type = "Card" THEN click.card ELSE before.current_card
      num        == IF hand_index # None /\ hand_index < Len(before.hand)
                    THEN before.hand[hand_index + 1] ELSE 0
      index      == Addressed(before, u.action, num)
      inside     == index \in Slots
  IN [op              |-> op,
      click           |-> click,
      action          |-> u.action,
      hand_index      |-> hand_index,
      card_slot       |-> IF click.type = "Card" THEN click.card ELSE before.current_card,
      num             |-> num,
      index           |-> index,
      from            |-> IF u.action.kind \in {"Move", "Range", "Melee"}
                          THEN EntityIndex(before, u.action.entity) ELSE None,
      strength        |-> IF inside
                          THEN before.strengths[index] + before.strength_adjustments[index]
                          ELSE None,
      was_alive       |-> inside /\ before.alive[index],
      hand_len        |-> Len(before.hand),
      deck_len        |-> Len(before.deck),
      trophies        |-> before.trophies,
      mid_hand        |-> u.arm.g.hand,
      mid_hits        |-> u.arm.g.current_hits,
      current_monster |-> u.arm.current_monster,
      add_trophy      |-> u.arm.add_trophy,
      reset           |-> u.refilled,
      panic           |-> u.panic,
      returned        |-> u.returned]

\* The trace of a step that is no update.
NoUpdate(g) ==
  [g |-> g, returned |-> FALSE, panic |-> FALSE, refilled |-> FALSE,
   arm |-> Arm(g, None, FALSE, FALSE, FALSE, 0), action |-> NoAction]

\* app(): Game::init.
Init ==
  \E draws \in RosterDraws, swaps \in ShuffleDraws, kind \in CompanionKinds :
    \E g \in {GameInit(draws, swaps, kind)} :
       /\ state = g.state
       /\ names = g.names
       /\ strengths = g.strengths
       /\ strength_adjustments = g.strength_adjustments
       /\ abilities = g.abilities
       /\ to_slays = g.to_slays
       /\ current_hits = g.current_hits
       /\ alive = g.alive
       /\ player_index = g.player_index
       /\ player_kind = g.player_kind
       /\ companion_index = g.companion_index
       /\ companion_kind = g.companion_kind
       /\ clickables = g.clickables
       /\ deck = g.deck
       /\ hand = g.hand
       /\ hand_limit = g.hand_limit
       /\ current_action = g.current_action
       /\ current_card = g.current_card
       /\ discarded = g.discarded
       /\ payments = g.payments
       /\ trophies = g.trophies
       /\ pc = "start"
       /\ aborted = FALSE
       /\ plays = 0
       /\ turns = 0
       /\ last = Trace("init", g, NoClick, NoUpdate(g))

\* app(): `game.update(Vector::new(0.0, 0.0))` right after init, when no
\* region is clickable yet.
InitialUpdate ==
  /\ pc = "start"
  /\ ~aborted
  /\ \E g \in {Self} : \E u \in {update(g, NoClick, 0)} :
        /\ Becomes(u.g)
        /\ last' = Trace("update", g, NoClick, u)
  /\ pc' = "loop"
  /\ UNCHANGED << aborted, plays, turns >>

\* The outcomes of rand::random() that are told apart for a click: the
\* residues modulo the hand a Move leaves behind, which is all the Noxious
\* discard reads of it; no other click draws a random number.
RandOutcomes(click) ==
  IF Len(hand) > 2
     /\ \/ click.type = "Card" /\ current_action.kind = "Move"
        \/ click.type = "Action" /\ click.action.kind = "Move" /\ current_card # None
  THEN 0 .. (Len(hand) - 2)
  ELSE {0}

\* app(): a PointerInput event, `game.update(input.mouse().location())`.
\* The click lies in one of the regions of the last draw or in none.
Click(click, r) ==
  /\ pc = "loop"
  /\ ~aborted
  /\ \E g \in {Self} : \E u \in {update(g, click, r)} :
        /\ (click.type = "Card" \/ (click.type = "Action" /\ click.action # EndTurn))
             => (plays < MaxPlays /\ turns < MaxTurns) \/ state = "EndGame"
        /\ u.refilled => plays = 0 \/ turns < MaxTurns
        /\ Becomes(u.g)
        /\ aborted' = u.panic
        /\ plays' = IF u.arm.num # 0 THEN plays + 1 ELSE plays
        /\ turns' = IF u.refilled /\ turns < MaxTurns THEN turns + 1 ELSE turns
        /\ last' = Trace("update", g, click, u)
  /\ UNCHANGED pc

\* app(): the events are consumed and the state is not Reset: Game::draw.
DrawStep ==
  /\ pc = "loop"
  /\ ~aborted
  /\ state # "Reset"
  /\ \E g \in {draw(Self)} :
       /\ Becomes(g)
       /\ last' = Trace("draw", g, NoClick, NoUpdate(g))
  /\ UNCHANGED << pc, aborted, plays, turns >>

\* app(): `continue 'reset_game` when the state is Reset: a new Game::init.
ReInit ==
  /\ pc = "loop"
  /\ ~aborted
  /\ state = "Reset"
  /\ \E draws \in RosterDraws, swaps \in ShuffleDraws, kind \in CompanionKinds :
       \E g \in {GameInit(draws, swaps, kind)} :
          /\ Becomes(g)
          /\ last' = Trace("init", g, NoClick, NoUpdate(g))
  /\ pc' = "start"
  /\ plays' = 0
  /\ turns' = 0
  /\ UNCHANGED aborted

Next ==
  \/ InitialUpdate
  \/ \E click \in clickables \cup {NoClick} : \E r \in RandOutcomes(click) : Click(click, r)
  \/ DrawStep
  \/ ReInit

Spec == Init /\ [][Next]_vars

(***************************************************************************)
(* Game::draw, the EndGame screen                                          *)
(***************************************************************************)
\* The "Total:" line of the score.
ScoreTotal(g) == g.payments * 3 + g.trophies * 2 + Len(g.hand) + Len(g.deck)

(***************************************************************************)
(* Properties                                                              *)
(***************************************************************************)
\* Whether the multiset of hit markers hits holds every requirement of
\* to_slay, each as often as it is required.
Covers(to_slay, hits) ==
  \A tag \in {"Melee", "Range", "Move"} : Count(to_slay, tag) <= Count(hits, tag)

\* The step is a call of update that resolved an action of the given kinds
\* with a card of the hand (the hand index passed the assertion).
Resolved(kinds) ==
  /\ last'.op = "update"
  /\ last'.action.kind \in kinds
  /\ last'.hand_index # None
  /\ last'.hand_index < Len(hand)

\* The index of the entity the resolved action is performed with, before the step.
ActingIndex == IF last'.action.entity = "Character" THEN player_index ELSE companion_index

\* C1: a resolved Melee(entity) with card value num appends a Melee marker to
\* the current hits of the monster at the entity's index iff num is at least
\* that monster's strength plus adjustment as they stand when update is
\* called; when num is smaller no marker is recorded on any monster.
C1_MeleeMarkerIffStrongEnough ==
  [][Resolved({"Melee"}) =>
       LET index == ActingIndex
           num   == hand[last'.hand_index + 1]
       IN IF num >= strengths[index] + strength_adjustments[index]
          THEN last'.mid_hits = [current_hits EXCEPT ![index] = Append(@, "Melee")]
          ELSE last'.mid_hits = current_hits]_vars

\* C1, witness: a Melee with a card above the monster's strength recorded
\* its marker on the monster under the entity.
C1_Witness ==
  /\ last.op = "update"
  /\ last.action.kind = "Melee"
  /\ last.num > last.strength
  /\ last.current_monster = last.index
  /\ Len(last.mid_hits[last.index]) > 0

\* The effective strength, before the step, of the monster at index.
EffectiveStrength(index) == strengths[index] + strength_adjustments[index]

\* The card value the resolved action plays, read from the hand before the step.
PlayedNum == hand[last'.hand_index + 1]

\* C2 as stated: a resolved Melee(entity) raises trophies by one iff the
\* card value equals the effective strength of the monster at the entity's
\* index.
C2_TrophyIffExactMelee ==
  [][Resolved({"Melee"}) =>
       ((trophies' = trophies + 1) <=> (PlayedNum = EffectiveStrength(ActingIndex)))]_vars

\* C2, amended: a resolved Melee(entity) raises trophies by one iff the card
\* value equals the effective strength of the monster at the entity's index,
\* that monster is alive and the Melee marker completes its kill
\* requirements; otherwise trophies is unchanged.
C2_TrophyIffExactMeleeKill ==
  [][Resolved({"Melee"}) =>
       LET index == ActingIndex
           kill  == /\ PlayedNum = EffectiveStrength(index)
                    /\ alive[index]
                    /\ Covers(to_slays[index], Append(current_hits[index], "Melee"))
       IN trophies' = IF kill THEN trophies + 1 ELSE trophies]_vars

\* C2, witness: a Melee with a card equal to the strength killed the monster
\* and the trophy was counted.
C2_Witness ==
  /\ last.op = "update"
  /\ last.action.kind = "Melee"
  /\ last.num = last.strength
  /\ last.was_alive
  /\ ~alive[last.index]
  /\ trophies = last.trophies + 1

\* The requirement tag an action of the given kind records.
TagOf(kind) == CASE kind = "Move" -> "Move" [] kind = "Range" -> "Range" [] OTHER -> "Melee"

\* The resolved action of the step records a hit on the living monster at
\* target, the hit completes its kill requirements and the card equals its
\* effective strength.
ExactKill(target) ==
  /\ Resolved({"Move", "Range", "Melee"})
  /\ target \in Slots
  /\ alive[target]
  /\ Covers(to_slays[target], Append(current_hits[target], TagOf(last'.action.kind)))
  /\ PlayedNum = EffectiveStrength(target)

\* C3: an update cycle that completes raises trophies by exactly 1 when its
\* resolved Move, Range or Melee records a hit on a living monster, the hit
\* completes the kill requirements and the card equals the effective
\* strength of the target; every other completed cycle leaves trophies
\* unchanged.
C3_TrophyExactlyOnExactKill ==
  [][last'.op = "update" /\ ~last'.panic =>
       trophies' = IF ExactKill(last'.index) THEN trophies + 1 ELSE trophies]_vars

\* C3, witness: a Move onto a living monster with a card equal to its
\* strength completed the kill and the trophy was counted.
C3_Witness ==
  /\ last.op = "update"
  /\ last.action.kind = "Move"
  /\ last.num = last.strength
  /\ last.was_alive
  /\ ~alive[last.index]
  /\ trophies = last.trophies + 1

\* The step resolves a Range whose target index lies outside the row.
RangeMiss == Resolved({"Range"}) /\ last'.index \notin Slots

\* C4 as stated: a resolved Range out of the row leaves the hand without
\* exactly the selected card, changes no current hits, no alive flag and no
\* trophies, and does not abort.
C4_RangeMissOnlySpendsCard ==
  [][RangeMiss =>
       /\ hand' = RemoveAt(hand, last'.hand_index)
       /\ current_hits' = current_hits
       /\ alive' = alive
       /\ trophies' = trophies
       /\ ~aborted']_vars

\* C4, amended: a resolved Range out of the row removes the selected card,
\* records no marker, changes no alive flag and no trophies and does not
\* abort; when the hand held two cards or more the cycle ends with the hand
\* less that card and the current hits unchanged, and when the card was the
\* last one the exhaustion reset refills the hand and clears all current
\* hits.
C4_RangeMissSpendsCardThenLifecycle ==
  [][RangeMiss =>
       /\ last'.mid_hand = RemoveAt(hand, last'.hand_index)
       /\ last'.mid_hits = current_hits
       /\ alive' = alive
       /\ trophies' = trophies
       /\ ~aborted'
       /\ IF Len(hand) >= 2
          THEN hand' = RemoveAt(hand, last'.hand_index) /\ current_hits' = current_hits
          ELSE /\ Len(hand') = (IF Len(deck) < hand_limit' THEN Len(deck) ELSE hand_limit')
               /\ \A i \in Slots : current_hits'[i] = <<>>]_vars

\* C4, witness: a Range out of the row was resolved from a hand of two
\* cards or more, and the hand is one card shorter.
C4_Witness ==
  /\ last.op = "update"
  /\ last.action.kind = "Range"
  /\ last.num > 0
  /\ last.index \notin Slots
  /\ last.hand_len >= 2
  /\ Len(hand) = last.hand_len - 1
  /\ ~aborted

\* C5: across update cycles a monster's alive flag only changes from true to
\* false, in the cycle whose action addressed it and left its current hits
\* covering its kill requirements; a dead monster is never set alive again
\* by an update.
C5_AliveFlipsOnceOnCover ==
  [][last'.op = "update" =>
       \A i \in Slots :
          alive'[i] # alive[i] =>
             /\ alive[i] /\ ~alive'[i]
             /\ last'.current_monster = i
             /\ Covers(to_slays[i], last'.mid_hits[i])]_vars

\* C5, witness: an update killed the monster it addressed while an earlier
\* killed monster stayed dead.
C5_Witness ==
  /\ last.op = "update"
  /\ last.current_monster \in Slots
  /\ last.was_alive
  /\ ~alive[last.current_monster]
  /\ \E j \in Slots : j # last.current_monster /\ ~alive[j]

\* C6: the hand never holds more cards than hand_limit; hand_limit is 5
\* from the start of a session and only ever changes to 6, where it stays
\* for the rest of the session.
C6_HandWithinLimit ==
  /\ [](Len(hand) <= hand_limit /\ hand_limit \in {InitHandLimit, MonstrousHandLimit})
  /\ [](last.op = "init" => hand_limit = InitHandLimit)
  /\ [][last'.op # "init" /\ hand_limit' # hand_limit =>
          hand_limit = InitHandLimit /\ hand_limit' = MonstrousHandLimit]_vars

\* C6, witness: the limit was raised to 6 and the hand holds 6 cards.
C6_Witness ==
  /\ hand_limit = MonstrousHandLimit
  /\ Len(hand) = MonstrousHandLimit
  /\ state = "Playing"

\* The number of cards of deck and hand together.
Cards == Len(deck) + Len(hand)

\* C7: at session start deck and hand together hold 40 - payments cards, 5
\* of them in the hand, every value is in 1..5 and occurs at most 8 times;
\* no update cycle increases the number of cards of deck and hand.
C7_CardsNeverIncrease ==
  /\ [](last.op = "init" =>
          /\ Cards = 40 - payments
          /\ Len(hand) = 5
          /\ \A i \in 1 .. Cards : (deck \o hand)[i] \in 1 .. 5
          /\ \A value \in 1 .. 5 : Count(deck \o hand, value) <= 8)
  /\ [][last'.op = "update" => Len(deck') + Len(hand') <= Cards]_vars

\* C7, witness: a cycle that played a card and refilled the hand ended with
\* fewer cards in deck and hand than it started with.
C7_Witness ==
  /\ last.op = "update"
  /\ last.num > 0
  /\ last.reset
  /\ Cards < last.hand_len + last.deck_len

\* C8 as stated: a hand of exactly 1 card whose card is resolved by a Move,
\* Range, Melee or Swap ends the cycle, without abort, with a Monstrous
\* player, hand_limit 6 and the hand refilled with min(6, deck size) cards
\* of the deck.
C8_LastCardTurnsMonstrous ==
  [][Resolved({"Move", "Range", "Melee", "Swap"}) /\ Len(hand) = 1 =>
       LET n == IF Len(deck) < 6 THEN Len(deck) ELSE 6
       IN /\ ~aborted'
          /\ player_kind' = "Monstrous"
          /\ hand_limit' = 6
          /\ Len(hand') = n
          /\ Len(deck') = Len(deck) - n]_vars

\* C9: an update cycle that completes without the Reset return ends with
\* hand and deck both empty iff it leaves the state EndGame.
C9_EndGameIffNoCards ==
  [][last'.op = "update" /\ ~last'.returned /\ ~last'.panic =>
       ((Len(hand') = 0 /\ Len(deck') = 0) <=> state' = "EndGame")]_vars

\* C9, witness: the cycle that took the last cards out of the hand, with the
\* deck empty, set the state to EndGame.
C9_Witness ==
  /\ last.op = "update"
  /\ ~last.returned
  /\ last.hand_len > 0
  /\ Len(hand) = 0 /\ Len(deck) = 0
  /\ state = "EndGame"

\* C10: whenever the state is EndGame the hand and the deck are empty, so
\* the total of the score is payments * 3 + trophies * 2.
C10_EndGameTotal ==
  state = "EndGame" =>
    /\ Len(hand) = 0 /\ Len(deck) = 0
    /\ ScoreTotal(Self) = payments * 3 + trophies * 2

\* C10, witness: the EndGame screen was drawn.
C10_Witness ==
  /\ state = "EndGame"
  /\ last.op = "draw"
  /\ ScoreTotal(Self) = payments * 3 + trophies * 2

\* The step is a call of update whose click hit the Reset region.
ResetClicked ==
  last'.op = "update" /\ last'.click.type = "State" /\ last'.click.state = "Reset"

\* C11: an update that receives Reset sets the state to Reset and returns at
\* once, whatever the selections hold: the roster, the hand, the deck, the
\* positions and kinds, hand_limit, payments, trophies and both selections
\* are unchanged.
C11_ResetOnlySetsState ==
  [][ResetClicked =>
       /\ state' = "Reset"
       /\ last'.returned
       /\ ~aborted'
       /\ UNCHANGED << names, strengths, strength_adjustments, abilities, to_slays,
                       current_hits, alive, player_index, player_kind,
                       companion_index, companion_kind, clickables, deck, hand,
                       hand_limit, current_action, current_card, discarded,
                       payments, trophies >>]_vars

\* C11, witness: Reset was clicked while a card was still selected, and the
\* selection is still there.
C11_Witness ==
  /\ last.op = "update"
  /\ last.click.type = "State"
  /\ last.returned
  /\ state = "Reset"
  /\ current_card # None

\* C12 as stated: once the state is EndGame it never returns to Playing, and
\* an update whose click is not Reset (it selects an action, a card or
\* nothing) leaves the session unchanged: player_kind, hand_limit, the
\* roster, the positions, the cards and trophies.
C12_EndGameIsTerminal ==
  [][state = "EndGame" =>
       /\ state' # "Playing"
       /\ (last'.op = "update" /\ ~ResetClicked) =>
            /\ state' = "EndGame"
            /\ ~aborted'
            /\ UNCHANGED << names, strengths, strength_adjustments, abilities,
                            to_slays, current_hits, alive, player_index,
                            player_kind, companion_index, companion_kind, deck,
                            hand, hand_limit, payments, trophies >>]_vars

\* The selections the match of the step's update finds, after the click was
\* dispatched on the selections of before the step.
ActionSlot == IF last'.click.type = "Action" THEN last'.click.action ELSE current_action
CardSlot == IF last'.click.type = "Card" THEN last'.click.card ELSE current_card
BothSlots == ActionSlot # NoAction /\ CardSlot # None

\* The step is a call of update that went on to the match and did not abort.
Cycle == last'.op = "update" /\ ~last'.returned /\ ~last'.panic

\* C13 as stated: while only one selection is filled no card leaves the
\* hand, no position, companion_kind or hit marker changes and no reset is
\* forced, for any action kind; a resolution clears both selections.
C13_ResolvesOnlyWithBothSlots ==
  [][Cycle =>
       /\ ~BothSlots =>
            /\ hand' = hand
            /\ player_index' = player_index /\ companion_index' = companion_index
            /\ companion_kind' = companion_kind
            /\ current_hits' = current_hits
            /\ ~last'.reset
       /\ BothSlots => current_action' = NoAction /\ current_card' = None]_vars

\* C13, amended: Move, Range, Melee and Swap take effect only in a cycle
\* whose match finds both selections filled: otherwise the match removes no
\* card, records no marker and changes no position or companion_kind.  EndTurn
\* takes effect as soon as the action selection holds it, whatever the card
\* selection.  Without both selections the hand is reset exactly when
\* EndTurn is selected or the hand is empty, and without a reset the hand
\* and the markers end the cycle unchanged.  A cycle that resolves and
\* completes clears both selections.
C13_CardActionsNeedBothSlots ==
  [][Cycle =>
       /\ (~BothSlots \/ ActionSlot = EndTurn) =>
            /\ last'.mid_hand = hand
            /\ last'.mid_hits = current_hits
            /\ player_index' = player_index /\ companion_index' = companion_index
            /\ companion_kind' = companion_kind
            /\ last'.reset <=> (ActionSlot = EndTurn \/ Len(hand) = 0)
            /\ ~last'.reset => hand' = hand /\ current_hits' = current_hits
       /\ (BothSlots \/ ActionSlot = EndTurn) =>
            current_action' = NoAction /\ current_card' = None
       /\ (BothSlots /\ ActionSlot # EndTurn) => Len(last'.mid_hand) < Len(hand)]_vars

\* C13, witness: EndTurn was clicked with no card selected and the hand was
\* reset.
C13_Witness ==
  /\ last.op = "update"
  /\ last.click.type = "Action"
  /\ last.click.action = EndTurn
  /\ last.card_slot = None
  /\ last.reset
  /\ last.hand_len > 0
  /\ current_action = NoAction

\* C14 as stated: under a correct caller update does not abort.  The card
\* selection is written by a card click and cleared by every resolution, and
\* the hand only shrinks in a resolution, so an index that was in the hand
\* when it was selected still is when the match reads it: no update whose
\* card selection is empty or an index of the hand aborts.
C14_UpdateIsTotal ==
  [][last'.op = "update" /\ (CardSlot # None => CardSlot < Len(hand)) => ~aborted']_vars

\* The player kind and the hand limit go together.
MonstrousIffLimit == player_kind = "Monstrous" <=> hand_limit = MonstrousHandLimit

\* The step turns the Regular player Monstrous.
TurnsMonstrous == player_kind = "Regular" /\ player_kind' = "Monstrous"

\* The match of the step's update removed no card besides the one played.
NoDiscard == Len(last'.mid_hand) >= Len(hand) - 1

\* C15 as stated: the player turns from Regular to Monstrous only in a
\* cycle in which a card was played, the play left the hand empty and no
\* Noxious discard happened; the change is one-way, and the player is
\* Monstrous exactly when hand_limit is 6.
C15_MonstrousOnlyByPlayingLastCard ==
  /\ []MonstrousIffLimit
  /\ [][/\ TurnsMonstrous =>
             /\ Resolved({"Move", "Range", "Melee", "Swap"})
             /\ last'.mid_hand = <<>>
             /\ NoDiscard
        /\ (player_kind = "Monstrous" /\ last'.op # "init") => player_kind' = "Monstrous"]_vars

\* C16 as stated, for the first turn of a session (no refill yet, so plays
\* counts the cards played in the turn): the player turns Monstrous only in
\* a cycle that ends a turn in which 5 cards were played from the hand.
C16_MonstrousOnlyAfterFivePlays ==
  [][TurnsMonstrous /\ turns = 0 => last'.reset /\ plays' = InitHandLimit]_vars

\* C17 as stated: right after init, before the first cycle, the cards missing
\* from the 40 of the fresh deck besides the hand, and the payments field
\* the score is computed from, both equal PAYMENTS.
C17_PaymentsIsTheConstant ==
  pc = "start" =>
    /\ Len(FreshDeck) - (Len(deck) + Len(hand)) = PAYMENTS
    /\ payments = PAYMENTS

\* The living Rally monsters among the immediate neighbours of slot i.
RallyNeighbours(i) ==
  { j \in {i - 1, i + 1} \cap Slots : abilities[j] = "Rally" /\ alive[j] }

\* Every adjustment is the number of living Rally neighbours of its slot.
AdjustmentsCountRally ==
  \A i \in Slots :
    /\ strength_adjustments[i] = Cardinality(RallyNeighbours(i))
    /\ strength_adjustments[i] \in 0 .. 2

\* The step kills the living Rally monster at slot k.
RallyDies(k) == abilities[k] = "Rally" /\ alive[k] /\ ~alive'[k]

\* C18: in every state after an update cycle, the initial one included, each
\* strength adjustment is the number of living Rally monsters among the
\* immediate neighbours of its slot, so it lies in 0..2; and a cycle in which
\* the Rally monster at k dies ends with the adjustments of k-1 and k+1
\* exactly 1 lower than before it.
C18_AdjustmentsCountRallyNeighbours ==
  /\ [](pc = "loop" /\ ~aborted => AdjustmentsCountRally)
  /\ [][Cycle =>
          \A k \in Slots :
            RallyDies(k) =>
              \A i \in {k - 1, k + 1} \cap Slots :
                strength_adjustments'[i] = strength_adjustments[i] - 1]_vars

\* A cycle has just killed a Rally monster whose neighbour had an adjustment
\* of 1 and now has none, next to a living Rally monster that still adds to
\* its own neighbours.
C18_Witness ==
  /\ pc = "loop" /\ ~aborted
  /\ last.op = "update" /\ ~last.returned
  /\ last.current_monster # None
  /\ abilities[last.current_monster] = "Rally"
  /\ last.was_alive /\ ~alive[last.current_monster]
  /\ \E i \in {last.current_monster - 1, last.current_monster + 1} \cap Slots :
       strength_adjustments[i] = 0
  /\ \E i \in Slots : strength_adjustments[i] = 1

(***************************************************************************)
(* The kill check and the recompute in the other order                     *)
(***************************************************************************)
\* update after the match arm a with the two blocks exchanged: adjustments
\* (main.rs 1114-1132) first, then the kill check (main.rs 1088-1112), then
\* the lifecycle as it is.
AfterMatchRecomputeFirst(a, action) ==
  Let(KillCheck(RecomputeAdjustments(a.g), a.current_monster, a.add_trophy),
      LAMBDA g1 :
        [g |-> Lifecycle(a, g1), returned |-> FALSE, panic |-> FALSE,
         refilled |-> ResetPending(a, g1), arm |-> a, action |-> action])

\* Game::update with the two blocks exchanged: the same dispatch and match,
\* and the same early return and panics.
updateRecomputeFirst(g, click, r) ==
  Let(update(g, click, r),
      LAMBDA u : IF u.returned \/ u.panic THEN u
                 ELSE AfterMatchRecomputeFirst(u.arm, u.action))

\* Whether the call with result u killed a Rally monster.
KilledRally(u) ==
  /\ ~u.returned /\ ~u.panic
  /\ u.arm.current_monster # None
  /\ u.arm.g.alive[u.arm.current_monster]
  /\ ~u.g.alive[u.arm.current_monster]
  /\ u.g.abilities[u.arm.current_monster] = "Rally"

\* The game g with the adjustments of the neighbours of slot k one higher.
NeighboursOneHigher(g, k) ==
  [g EXCEPT !.strength_adjustments =
     [i \in Slots |-> IF i \in {k - 1, k + 1} THEN @[i] + 1 ELSE @[i]]]

(***************************************************************************)
(* The strength adjustment recompute on its own                            *)
(***************************************************************************)
\* Largest value of the adjustments a roster holds before the recompute.
MaxStale == 2

\* Outcomes of the sampling loop of Monsters::init: the roster of Spec
\* (Rally at 0 and 6), one with the two Rally monsters around slot 4, one
\* with them at both ends of the row, one without a Rally monster.
RosterSamples ==
  { RosterDrawsA,
    << 0, 1, 2, 9, 3, 15, 4, 5, 6, 7, 8, 10, 11, 12 >>,
    << 15, 0, 1, 2, 3, 4, 5, 6, 7, 8, 10, 11, 12, 9 >>,
    << 0, 1, 2, 3, 4, 5, 6, 7, 8, 10, 11, 12, 13, 14 >> }

\* The slots whose monster may have been killed.
DeadSamples == SUBSET {0, 3, 5, 6, 13}

\* Adjustments left in the roster: the same value everywhere, or mixed.
StaleSamples ==
  { [i \in Slots |-> c] : c \in 0 .. MaxStale } \cup { [i \in Slots |-> i % (MaxStale + 1)] }

\* A game with one of the rosters, some monsters dead and any adjustments.
RosterInit ==
  \E draws \in RosterSamples, dead \in DeadSamples, stale \in StaleSamples :
    \E g \in {[GameInit(draws, ShuffleDrawsA, "Melee") EXCEPT
                 !.alive = [i \in Slots |-> i \notin dead],
                 !.strength_adjustments = stale]} :
       /\ state = g.state
       /\ names = g.names
       /\ strengths = g.strengths
       /\ strength_adjustments = g.strength_adjustments
       /\ abilities = g.abilities
       /\ to_slays = g.to_slays
       /\ current_hits = g.current_hits
       /\ alive = g.alive
       /\ player_index = g.player_index
       /\ player_kind = g.player_kind
       /\ companion_index = g.companion_index
       /\ companion_kind = g.companion_kind
       /\ clickables = g.clickables
       /\ deck = g.deck
       /\ hand = g.hand
       /\ hand_limit = g.hand_limit
       /\ current_action = g.current_action
       /\ current_card = g.current_card
       /\ discarded = g.discarded
       /\ payments = g.payments
       /\ trophies = g.trophies
       /\ pc = "roster"
       /\ aborted = FALSE
       /\ plays = 0
       /\ turns = 0
       /\ last = Trace("init", g, NoClick, NoUpdate(g))

\* The two loops of the recompute, run once on the roster and once more on
\* what the first run left.
Recompute ==
  /\ pc \in {"roster", "once"}
  /\ Becomes(RecomputeAdjustments(Self))
  /\ pc' = IF pc = "roster" THEN "once" ELSE "twice"
  /\ UNCHANGED << aborted, plays, turns, last >>

RecomputeSpec == RosterInit /\ [][Recompute]_vars

\* C19: the recompute is idempotent: run a second time on the roster the
\* first run left, with no alive flag changed in between, it leaves every
\* strength adjustment (and the rest of the game) as the first run left it,
\* whatever the adjustments were before the first run.
C19_RecomputeIsIdempotent ==
  [][pc = "once" => /\ strength_adjustments' = strength_adjustments
                    /\ Self' = Self]_vars

\* The recompute has run twice on a roster with two living Rally monsters
\* around one slot and a dead monster elsewhere.
C19_Witness ==
  /\ pc = "twice"
  /\ \E i \in Slots : strength_adjustments[i] = 2
  /\ \E i \in Slots : ~alive[i]

\* C20 as stated: for every click a running session can receive, update with
\* the recompute before the kill check ends in the same session state as
\* update as it is.
C20_OrderDoesNotMatter ==
  (pc = "loop" /\ ~aborted) =>
    \A click \in clickables \cup {NoClick} :
      \A r \in RandOutcomes(click) :
        updateRecomputeFirst(Self, click, r).g = update(Self, click, r).g

\* C20, amended: the two orders end in the same session state in every cycle
\* except the cycles whose kill check kills a Rally monster; there the
\* recompute before the kill check still counts the monster as alive, and it
\* ends with the adjustments of its neighbours 1 higher than update as it is
\* and with everything else the same.
C20_OrderMattersWhenRallyDies ==
  (pc = "loop" /\ ~aborted) =>
    \A click \in clickables \cup {NoClick} :
      \A r \in RandOutcomes(click) :
        Let(update(Self, click, r),
            LAMBDA u :
              updateRecomputeFirst(Self, click, r).g
                = IF KilledRally(u)
                  THEN NeighboursOneHigher(u.g, u.arm.current_monster)
                  ELSE u.g)

\* A click is due that kills a Rally monster, and the two orders end it with
\* different adjustments.
C20_Witness ==
  /\ pc = "loop" /\ ~aborted
  /\ \E click \in clickables :
       /\ KilledRally(update(Self, click, 0))
       /\ updateRecomputeFirst(Self, click, 0).g.strength_adjustments
            # update(Self, click, 0).g.strength_adjustments
       /\ updateRecomputeFirst(Self, click, 0).g.alive = update(Self, click, 0).g.alive

\* The hands that are left when one card is removed from the hand h.
OneRemoved(h) == { RemoveAt(h, j) : j \in 0 .. (Len(h) - 1) }

\* The monster at index is alive and Noxious before the step.
LivingNoxious(index) == alive[index] /\ abilities[index] = "Noxious"

ResetFires ==
  \/ ActionSlot = EndTurn
  \/ last'.mid_hand = <<>> /\ NoDiscard

\* The smaller of two numbers.
Min(a, b) == IF a < b THEN a ELSE b

\* C22: a completed cycle whose pending reset fires ends with a hand that
\* holds none of the old cards but exactly the min(hand_limit, deck size
\* before the refill) cards popped from the tail of the deck, with the deck
\* shorter by those cards, and with no hit marker on any monster.
C22_ResetRefillsFromDeckTail ==
  [][Cycle /\ ResetFires =>
       LET n == Min(hand_limit', Len(deck))
       IN /\ last'.reset
          /\ Len(hand') = n
          /\ \A i \in 1 .. n : hand'[i] = deck[Len(deck) + 1 - i]
          /\ deck' = SubSeq(deck, 1, Len(deck) - n)
          /\ \A i \in Slots : current_hits'[i] = <<>>]_vars

\* An EndTurn taken with cards in hand and a hit marker on a monster: the
\* hand is the 5 cards from the tail of the deck and no marker is left.
C22_Witness ==
  /\ last.op = "update" /\ ~last.panic
  /\ last.click.type = "Action" /\ last.click.action = EndTurn
  /\ last.reset
  /\ last.hand_len > 0
  /\ \E i \in Slots : last.mid_hits[i] # <<>>
  /\ Len(hand) = InitHandLimit
  /\ Len(deck) = last.deck_len - InitHandLimit
  /\ \A i \in Slots : current_hits[i] = <<>>

\* Whether the sequence s is the beginning of the sequence t.
IsPrefix(s, t) == Len(s) <= Len(t) /\ SubSeq(t, 1, Len(s)) = s

\* The step's cycle takes the exhaustion branch: the match leaves the hand
\* empty and discarded no card.
ExhaustionReset == last'.mid_hand = <<>> /\ NoDiscard

\* C23 as stated: a completed cycle takes markers away from a living monster
\* only when it kills that monster or when its reset is a hand-exhaustion
\* reset; an EndTurn with cards in hand leaves the markers in place.
C23_HitsPersistAcrossEndTurn ==
  [][Cycle =>
       \A i \in Slots :
         alive[i] /\ ~IsPrefix(current_hits[i], current_hits'[i]) =>
           ~alive'[i] \/ ExhaustionReset]_vars

\* C23, amended: a completed cycle leaves a living monster without markers
\* when it kills that monster or when its pending reset fires, by an EndTurn
\* (cards in hand or not) as well as by hand exhaustion; in every other
\* cycle the monster keeps its markers, with the new one, if any, appended.
\* Every turn therefore starts with no marker on any monster.
C23_HitsClearedOnKillAndEveryReset ==
  [][Cycle =>
       \A i \in Slots :
         alive[i] =>
           IF ResetFires \/ ~alive'[i]
           THEN current_hits'[i] = <<>>
           ELSE /\ IsPrefix(current_hits[i], current_hits'[i])
                /\ Len(current_hits'[i]) <= Len(current_hits[i]) + 1]_vars

\* An EndTurn taken with cards in hand took the markers from a monster that
\* is still alive.
C23_Witness ==
  /\ last.op = "update" /\ ~last.panic
  /\ last.click.type = "Action" /\ last.click.action = EndTurn
  /\ last.hand_len > 0
  /\ \E i \in Slots : alive[i] /\ last.mid_hits[i] # <<>> /\ current_hits[i] = <<>>

\* C24 as stated: in every state of a running session a monster that is not
\* alive holds no hit marker.
C24_DeadMonstersHoldNoHits ==
  ~aborted => \A i \in Slots : ~alive[i] => current_hits[i] = <<>>

(***************************************************************************)
(* One resolution from any position of the row                             *)
(***************************************************************************)
\* A game in which the character and the companion stand anywhere in the
\* row, the hand holds two cards of one value, the first of them is selected
\* and the scene has been drawn.
PositionInit ==
  \E player \in Slots, companion \in Slots, value \in 1 .. 5, kind \in CompanionKinds :
    \E g \in {[draw([GameInit(RosterDrawsA, ShuffleDrawsA, kind) EXCEPT
                       !.player_index = player,
                       !.companion_index = companion,
                       !.hand = << value, value >>])
                 EXCEPT !.current_card = 0]} :
       /\ state = g.state
       /\ names = g.names
       /\ strengths = g.strengths
       /\ strength_adjustments = g.strength_adjustments
       /\ abilities = g.abilities
       /\ to_slays = g.to_slays
       /\ current_hits = g.current_hits
       /\ alive = g.alive
       /\ player_index = g.player_index
       /\ player_kind = g.player_kind
       /\ companion_index = g.companion_index
       /\ companion_kind = g.companion_kind
       /\ clickables = g.clickables
       /\ deck = g.deck
       /\ hand = g.hand
       /\ hand_limit = g.hand_limit
       /\ current_action = g.current_action
       /\ current_card = g.current_card
       /\ discarded = g.discarded
       /\ payments = g.payments
       /\ trophies = g.trophies
       /\ pc = "selected"
       /\ aborted = FALSE
       /\ plays = 0
       /\ turns = 0
       /\ last = Trace("draw", g, NoClick, NoUpdate(g))

\* app(): a PointerInput event inside one of the action regions.
ActionClick ==
  /\ pc = "selected"
  /\ \E click \in { c \in clickables : c.type = "Action" } :
       \E g \in {Self} : \E u \in {update(g, click, 0)} :
          /\ Becomes(u.g)
          /\ aborted' = u.panic
          /\ last' = Trace("update", g, click, u)
  /\ pc' = "resolved"
  /\ UNCHANGED << plays, turns >>

PositionSpec == PositionInit /\ [][ActionClick]_vars

(***************************************************************************)
(* The kill check on its own                                               *)
(***************************************************************************)
\* Largest number of hit markers a monster holds when the kill check runs.
MaxHits == 4

\* The sequences of at most n hit markers.
RECURSIVE HitSeqs(_)
HitSeqs(n) ==
  IF n = 0 THEN { <<>> }
  ELSE LET shorter == HitSeqs(n - 1)
       IN shorter \cup { Append(h, tag) : h \in shorter, tag \in {"Melee", "Range", "Move"} }

\* A game in which the monster at one slot, alive or dead, holds any markers
\* and the match has just named it as current_monster.
KillCheckInit ==
  \E target \in Slots, hits \in HitSeqs(MaxHits), lives \in BOOLEAN, add_trophy \in BOOLEAN :
    \E g \in {[GameInit(RosterDrawsA, ShuffleDrawsA, "Melee") EXCEPT
                 !.alive[target] = lives,
                 !.current_hits[target] = hits]} :
       /\ state = g.state
       /\ names = g.names
       /\ strengths = g.strengths
       /\ strength_adjustments = g.strength_adjustments
       /\ abilities = g.abilities
       /\ to_slays = g.to_slays
       /\ current_hits = g.current_hits
       /\ alive = g.alive
       /\ player_index = g.player_index
       /\ player_kind = g.player_kind
       /\ companion_index = g.companion_index
       /\ companion_kind = g.companion_kind
       /\ clickables = g.clickables
       /\ deck = g.deck
       /\ hand = g.hand
       /\ hand_limit = g.hand_limit
       /\ current_action = g.current_action
       /\ current_card = g.current_card
       /\ discarded = g.discarded
       /\ payments = g.payments
       /\ trophies = g.trophies
       /\ pc = "hit"
       /\ aborted = FALSE
       /\ plays = 0
       /\ turns = 0
       /\ last = Trace("init", g, NoClick,
                       [NoUpdate(g) EXCEPT !.arm = Arm(g, target, FALSE, add_trophy, FALSE, 0)])

\* The kill check block of update, run on current_monster.
KillCheckStep ==
  /\ pc = "hit"
  /\ Becomes(KillCheck(Self, last.current_monster, last.add_trophy))
  /\ pc' = "checked"
  /\ UNCHANGED << aborted, plays, turns, last >>

KillCheckSpec == KillCheckInit /\ [][KillCheckStep]_vars

\* C25: the kill check turns its target dead exactly when the target is
\* alive and each requirement tag occurs in its current hits at least as
\* often as in its kill requirements, whatever the order of the hits and
\* whatever other hits there are; it then clears the target's hits, and it
\* changes no other monster.
C25_KilledIffRequirementsCovered ==
  [][pc = "hit" =>
       LET i    == last.current_monster
           kill == alive[i] /\ Covers(to_slays[i], current_hits[i])
       IN /\ alive' = [alive EXCEPT ![i] = @ /\ ~kill]
          /\ current_hits' = [current_hits EXCEPT ![i] = IF kill THEN <<>> ELSE @]]_vars

\* The kill check has left alive the monster that requires three Range hits
\* and holds two of them, a Move and a Melee.
C25_Witness ==
  /\ pc = "checked"
  /\ to_slays[last.current_monster] = <<"Range", "Range", "Range">>
  /\ alive[last.current_monster]
  /\ Count(current_hits[last.current_monster], "Range") = 2
  /\ Count(current_hits[last.current_monster], "Move") = 1
  /\ Count(current_hits[last.current_monster], "Melee") = 1

\* The larger of two numbers.
Max(a, b) == IF a > b THEN a ELSE b

\* Both entities stand on a slot of the row.
InRow == player_index \in Slots /\ companion_index \in Slots

\* The slot a Move of the step's action takes its entity to.
MoveTarget ==
  IF last'.action.direction = "Left"
  THEN Max(0, ActingIndex - PlayedNum)
  ELSE Min(MONSTER_DECK_SIZE - 1, ActingIndex + PlayedNum)

\* C26: player_index and companion_index are always in 0..N-1; a completed
\* cycle that resolves Move(entity, Left) with the card num sets the index of
\* that entity to max(0, index - num), Move(entity, Right) to
\* min(N-1, index + num), and leaves the index of the other entity as it
\* is; every other completed cycle (Range, Melee, Swap, EndTurn, nothing
\* resolved) leaves both indexes as they are.
C26_MoveClampsToRow ==
  /\ []InRow
  /\ [][Cycle =>
          IF Resolved({"Move"})
          THEN IF last'.action.entity = "Character"
               THEN player_index' = MoveTarget /\ companion_index' = companion_index
               ELSE companion_index' = MoveTarget /\ player_index' = player_index
          ELSE player_index' = player_index /\ companion_index' = companion_index]_vars

\* A Move to the right stopped at the last slot of the row, short of the
\* card's value, and the other entity stayed where it was.
C26_Witness ==
  /\ pc = "resolved" /\ ~aborted
  /\ last.action = Move("Companion", "Right")
  /\ last.from + last.num > MONSTER_DECK_SIZE - 1
  /\ companion_index = MONSTER_DECK_SIZE - 1
  /\ player_index = 4

\* The other companion kind.
OtherKind(kind) == CASE kind = "Melee" -> "Range" [] kind = "Range" -> "Melee"

\* C27: a resolved Swap takes exactly the selected card from the hand, turns
\* companion_kind into the other kind, records no hit marker and changes no
\* alive flag, position or trophy count; companion_kind has two values, the
\* other of the other is the kind itself and no other cycle changes it, so
\* two Swaps in a row restore it.
C27_SwapTogglesCompanionOnly ==
  /\ [](companion_kind \in CompanionKinds
        /\ OtherKind(OtherKind(companion_kind)) = companion_kind)
  /\ [][Cycle =>
          IF Resolved({"Swap"})
          THEN /\ last'.mid_hand = RemoveAt(hand, last'.hand_index)
               /\ companion_kind' = OtherKind(companion_kind)
               /\ last'.mid_hits = current_hits
               /\ alive' = alive
               /\ player_index' = player_index
               /\ companion_index' = companion_index
               /\ trophies' = trophies
          ELSE companion_kind' = companion_kind]_vars

\* A Swap was resolved after two other plays: the companion is a Range
\* companion away from slot 0, a marker recorded earlier is still there and
\* the hand lost one card.
C27_Witness ==
  /\ last.op = "update" /\ ~last.panic
  /\ last.action = Swap
  /\ companion_kind = "Range"
  /\ companion_index > 0
  /\ ~last.reset
  /\ Len(hand) = last.hand_len - 1
  /\ \E i \in Slots : current_hits[i] # <<>>

\* The game g with no monster carrying Reign.
WithoutReign(g) ==
  [g EXCEPT !.abilities = [i \in Slots |-> IF @[i] = "Reign" THEN "None" ELSE @[i]]]

\* The game g with Reign on every monster that has no ability.
WithReign(g) ==
  [g EXCEPT !.abilities = [i \in Slots |-> IF @[i] = "None" THEN "Reign" ELSE @[i]]]

\* Whether the result v of update on a game h is the result u of update on
\* the same input and the same game with other abilities: same return, same
\* panic, same refill, same game, the abilities apart, which stay those of h.
SameResolution(u, v, h) ==
  /\ v.returned = u.returned
  /\ v.panic = u.panic
  /\ v.refilled = u.refilled
  /\ [v.g EXCEPT !.abilities = u.g.abilities] = u.g
  /\ v.g.abilities = h.abilities

\* C28: for every state of a running session and every input, update does
\* the same to the session, to the session with Reign taken from every
\* monster that has it, and to the session with Reign given to every
\* monster without an ability: alive flags, markers, adjustments, trophies,
\* hand, deck, positions and state come out the same and the abilities stay
\* as they are.  Sessions that differ only in Reign therefore stay equal,
\* input after input, in everything but the abilities.
C28_ReignNeverRead ==
  (pc = "loop" /\ ~aborted) =>
    \A click \in clickables \cup {NoClick} :
      \A r \in RandOutcomes(click) :
        Let(update(Self, click, r),
            LAMBDA u :
              /\ SameResolution(u, update(WithoutReign(Self), click, r), WithoutReign(Self))
              /\ SameResolution(u, update(WithReign(Self), click, r), WithReign(Self)))

\* A cycle has just killed a Reign monster next to a living monster of
\* smaller strength.
C28_Witness ==
  /\ pc = "loop" /\ ~aborted
  /\ last.op = "update"
  /\ last.current_monster # None
  /\ abilities[last.current_monster] = "Reign"
  /\ ~alive[last.current_monster]
  /\ last.mid_hits[last.current_monster] # <<>>
  /\ \E j \in {last.current_monster - 1, last.current_monster + 1} \cap Slots :
       alive[j] /\ strengths[j] < strengths[last.current_monster]

\* Outcomes of rand::random() % 18 for the sampling loop: the draws of Spec,
\* and every walk over the catalog from a start k with a stride j that
\* visits all 18 entries, each outcome drawn twice in a row, so that every
\* second draw is rejected.
DrawSamples ==
  { RosterDrawsA }
    \cup { [i \in 1 .. 2 * Len(MONSTER_STATS) |->
              (k + j * ((i - 1) \div 2)) % Len(MONSTER_STATS)] :
           k \in 0 .. (Len(MONSTER_STATS) - 1), j \in {1, 5, 7, 11, 13, 17} }

\* Whether slot i of the roster m holds the catalog entry k: its name,
\* strength and ability, and its requirements without the empty ones.
HoldsEntry(m, i, k) ==
  /\ m.names[i] = MONSTER_STATS[k][1]
  /\ m.strengths[i] = MONSTER_STATS[k][2]
  /\ m.abilities[i] = MONSTER_STATS[k][3]
  /\ \A tag \in {"Melee", "Range", "Move"} :
       Count(m.to_slays[i], tag) = Count(MONSTER_STATS[k][4], tag)
  /\ Count(m.to_slays[i], "None") = 0

\* The roster m has one monster per slot, each a catalog entry, no entry
\* twice.
DistinctEntries(m) ==
  /\ \A f \in {"names", "strengths", "strength_adjustments", "abilities",
               "to_slays", "current_hits", "alive"} : DOMAIN m[f] = Slots
  /\ \A i \in Slots : \E k \in 1 .. Len(MONSTER_STATS) : HoldsEntry(m, i, k)
  /\ \A i, j \in Slots : i # j => m.names[i] # m.names[j]

\* Every monster of the roster m is alive, unadjusted and without markers.
AllFresh(m) ==
  \A i \in Slots :
    m.alive[i] /\ m.strength_adjustments[i] = 0 /\ m.current_hits[i] = <<>>

\* C29: the sampling loop ends with exactly N indexes and Monsters::init
\* builds from them N monsters that are pairwise distinct catalog entries,
\* all alive, with adjustment 0 and no markers: for the roster of the session
\* that has just been initialised and for every sampled sequence of draws;
\* and no update or draw changes the names, base strengths, abilities or
\* kill requirements of the roster, which keeps its N slots in their order.
C29_RosterDistinctAndFixed ==
  /\ [](pc = "start" =>
          /\ DistinctEntries(Self) /\ AllFresh(Self)
          /\ \A draws \in DrawSamples :
               /\ Len(SampleIndexes(<<>>, draws)) = MONSTER_DECK_SIZE
               /\ DistinctEntries(MonstersInit(draws))
               /\ AllFresh(MonstersInit(draws)))
  /\ []DistinctEntries(Self)
  /\ [][last'.op # "init" =>
          /\ names' = names
          /\ strengths' = strengths
          /\ abilities' = abilities
          /\ to_slays' = to_slays]_vars

\* The third draw of the session's init repeated the first and was
\* rejected, so the Bug of the fourth draw stands in the third slot; cycles
\* have since killed a monster and put a marker on another, and the roster
\* still holds its 14 distinct entries.
C29_Witness ==
  /\ pc = "loop" /\ ~aborted
  /\ names[0] = "Howler" /\ names[1] = "Ghost" /\ names[2] = "Bug"
  /\ Cardinality({ names[i] : i \in Slots }) = MONSTER_DECK_SIZE
  /\ \E i \in Slots : ~alive[i]
  /\ \E i \in Slots : current_hits[i] # <<>>

\* C30: in every state of a running session, after every completed update
\* cycle, the action selection or the card selection is empty, and the
\* action selection is not EndTurn: whatever the kind of the action, a
\* filled action selection and a filled card selection do not both outlive
\* an update.
C30_SelectionsNeverBothSurvive ==
  ~aborted =>
    /\ current_action = NoAction \/ current_card = None
    /\ current_action # EndTurn

\* After a card was played, a click on an action region left the action
\* selected and the card selection empty.
C30_Witness ==
  /\ pc = "loop" /\ ~aborted
  /\ last.op = "update" /\ ~last.returned
  /\ last.click.type = "Action"
  /\ current_action = last.click.action
  /\ current_action.kind \in {"Move", "Range", "Melee", "Swap"}
  /\ current_card = None
  /\ plays > 0

(***************************************************************************)
(* Trophies and the dead                                                   *)
(***************************************************************************)
\* The monsters of the row that are dead.
DeadMonsters == { i \in Slots : ~alive[i] }

\* C31: in every reachable state the trophies do not exceed the number of
\* monsters with alive = false; and in every step of a session (an update,
\* complete or not, or a draw of the Game that Game::init built) the
\* trophies do not decrease and grow by at most 1.
C31_TrophiesBoundedByKills ==
  /\ [](trophies <= Cardinality(DeadMonsters))
  /\ [][last'.op # "init" => trophies' \in {trophies, trophies + 1}]_vars

\* A cycle has just killed a monster with an exact hit and counted the
\* session's first trophy for it, while another monster died earlier without a trophy.
C31_Witness ==
  /\ pc = "loop" /\ ~aborted
  /\ last.op = "update" /\ ~last.returned
  /\ last.add_trophy
  /\ last.current_monster \in DeadMonsters
  /\ last.was_alive
  /\ trophies = last.trophies + 1
  /\ Cardinality(DeadMonsters) > trophies

\* The living monsters whose hit markers cover their kill requirements.
Overdue == { i \in Slots : alive[i] /\ Covers(to_slays[i], current_hits[i]) }

\* C32: after every completed update cycle (and in every other state of a
\* process that has not aborted) no living monster's current_hits covers
\* its to_slays; and a living monster whose hits cover its requirements
\* right after the match of a completed cycle is dead, with its markers
\* cleared, at the end of that very cycle.
C32_NoLivingMonsterIsCovered ==
  /\ [](~aborted => Overdue = {})
  /\ [][Cycle =>
          \A i \in Slots :
             alive[i] /\ Covers(to_slays[i], last'.mid_hits[i]) =>
                ~alive'[i] /\ current_hits'[i] = <<>>]_vars

\* A cycle recorded the hit that completed the requirements of a monster
\* hit in an earlier cycle too, and the monster is dead at the end of the
\* cycle; a living monster holds a marker that does not cover its
\* requirements.
C32_Witness ==
  /\ pc = "loop" /\ ~aborted
  /\ last.op = "update" /\ ~last.returned
  /\ last.current_monster \in Slots
  /\ last.was_alive
  /\ Len(last.mid_hits[last.current_monster]) >= 2
  /\ Covers(to_slays[last.current_monster], last.mid_hits[last.current_monster])
  /\ ~alive[last.current_monster]
  /\ \E j \in Slots : alive[j] /\ current_hits[j] # <<>>

(***************************************************************************)
(* The Reset state                                                         *)
(***************************************************************************)
\* C33: once an update has set the state to Reset, the state stays Reset
\* until app() re-initializes the session: no step other than the new
\* Game::init (a further click handed to update, a draw) moves the state
\* from Reset to EndGame or Playing.
C33_ResetStaysUntilReInit ==
  [][state = "Reset" /\ last'.op # "init" => state' = "Reset"]_vars

(***************************************************************************)
(* Playing a session to its end                                            *)
(***************************************************************************)
\* The EndTurn clicks that precede the part of the session that is explored
\* to its end.
LiveEndTurns == 6

\* The actions that take a card from the hand when they resolve.
CardConsuming == {"Move", "Range", "Melee", "Swap"}

\* The game after n more rounds of a click on the EndTurn region and the
\* draw that follows it.
RECURSIVE EndTurns(_, _)
EndTurns(g, n) ==
  IF n = 0 THEN g
  ELSE EndTurns(draw(update(g, ClickAction(EndTurn), 0).g), n - 1)

\* app(): a session after Game::init, the initial update, the first draw
\* and LiveEndTurns turns ended without a play: a late point of a session,
\* with a full hand and a few cards left in the deck.
LiveInit ==
  \E draws \in RosterDraws, swaps \in ShuffleDraws, kind \in CompanionKinds :
    \E g \in {EndTurns(draw(update(GameInit(draws, swaps, kind), NoClick, 0).g),
                       LiveEndTurns)} :
       /\ state = g.state
       /\ names = g.names
       /\ strengths = g.strengths
       /\ strength_adjustments = g.strength_adjustments
       /\ abilities = g.abilities
       /\ to_slays = g.to_slays
       /\ current_hits = g.current_hits
       /\ alive = g.alive
       /\ player_index = g.player_index
       /\ player_kind = g.player_kind
       /\ companion_index = g.companion_index
       /\ companion_kind = g.companion_kind
       /\ clickables = g.clickables
       /\ deck = g.deck
       /\ hand = g.hand
       /\ hand_limit = g.hand_limit
       /\ current_action = g.current_action
       /\ current_card = g.current_card
       /\ discarded = g.discarded
       /\ payments = g.payments
       /\ trophies = g.trophies
       /\ pc = "loop"
       /\ aborted = FALSE
       /\ plays = 0
       /\ turns = 0
       /\ last = Trace("draw", g, NoClick, NoUpdate(g))

\* app(): a PointerInput event, `game.update(input.mouse().location())`,
\* with no limit on the plays of the session.
LiveClick(click, r) ==
  /\ pc = "loop"
  /\ ~aborted
  /\ \E g \in {Self} : \E u \in {update(g, click, r)} :
        /\ Becomes(u.g)
        /\ aborted' = u.panic
        /\ last' = Trace("update", g, click, u)
  /\ UNCHANGED << pc, plays, turns >>

\* The regions the player of this part of the session clicks: the cards,
\* the character's Move to the right and EndTurn.
PlayerClicks ==
  { click \in clickables :
      click.type = "Action" => click.action \in {Move("Character", "Right"), EndTurn} }

LiveNext ==
  \/ \E click \in PlayerClicks \cup {NoClick} : \E r \in RandOutcomes(click) : LiveClick(click, r)
  \/ DrawStep

\* The player, holding cards and having selected nothing, selects an action
\* that takes a card, or a card.
SelectStep ==
  /\ hand # <<>>
  /\ current_action = NoAction /\ current_card = None
  /\ \E click \in PlayerClicks :
        /\ click.type = "Card" \/ (click.type = "Action" /\ click.action # EndTurn)
        /\ LiveClick(click, 0)

\* The player, holding cards, makes the click that resolves an action that
\* takes a card.
ResolveStep ==
  /\ hand # <<>>
  /\ \E click \in PlayerClicks : \E r \in RandOutcomes(click) :
        /\ LiveClick(click, r)
        /\ last'.action.kind \in CardConsuming

\* The session under a player who keeps selecting and resolving actions
\* that take a card for as long as the hand holds one; app() draws after
\* every batch of events.
LiveSpec ==
  /\ LiveInit /\ [][LiveNext]_vars
  /\ WF_vars(DrawStep) /\ WF_vars(SelectStep) /\ WF_vars(ResolveStep)

\* A discard has emptied the hand while the deck still holds cards, and no
\* update has run since.
DiscardedHandWaits == state = "Playing" /\ hand = <<>> /\ deck # <<>>

\* C34: every completed update cycle that resolves an action that takes a
\* card (Move, Range, Melee or Swap) strictly decreases the number of cards
\* in deck and hand together, and a session that does not abort, under a
\* player who keeps resolving such actions whenever the hand is non-empty,
\* eventually reaches the state EndGame.
C34_SessionReachesEndGame ==
  /\ [][Cycle /\ last'.action.kind \in CardConsuming => Cards' < Cards]_vars
  /\ ([]~aborted => <>(state = "EndGame"))

====
